---- MODULE Spec2Model ----
(***************************************************************************)
(* List-An-Item (src/app.py): a Streamlit account manager with a personal  *)
(* list per account.  Every user interaction runs the script main_app once *)
(* (and once more after each st.rerun()); an action below is one such      *)
(* interaction run to completion.                                          *)
(*                                                                         *)
(* Strings are sequences of one-character strings, so that str.strip(),    *)
(* len() and re.search() are computed, not assumed.                        *)
(***************************************************************************)
EXTENDS Integers, Sequences, FiniteSets, TLC

VARIABLES file, accounts, page, logged_in_user, notice

vars == <<file, accounts, page, logged_in_user, notice>>

----------------------------------------------------------------------------
(* Bounds and input alphabets                                              *)

\* longest list the add button is exercised on
MaxListLen == 2

\* the browser sessions of the single-session specification
SingleSession == {"s1"}

alice == <<"a", "l", "i", "c", "e">>
bob == <<"b", "o", "b">>
milk == <<"m", "i", "l", "k">>
Milk == <<"M", "i", "l", "k">>
eggs == <<"e", "g", "g", "s">>

\* "Abc123!": satisfies the five rules
pwGood == <<"A", "b", "c", "1", "2", "3", "!">>
\* "Abc12!": exactly six characters, satisfies the five rules; typed with a
\* space on either side
pwSix == <<"A", "b", "c", "1", "2", "!">>
\* "Abc1! ": six characters typed, five after strip()
pwPadded5 == <<"A", "b", "c", "1", "!", " ">>
\* "ABC123!": no lowercase letter
pwNoLower == <<"A", "B", "C", "1", "2", "3", "!">>
\* "abc123!": no uppercase letter
pwNoUpper == <<"a", "b", "c", "1", "2", "3", "!">>
\* "Abcdef!": no digit
pwNoDigit == <<"A", "b", "c", "d", "e", "f", "!">>
\* "Abc1234": no special character
pwNoSpecial == <<"A", "b", "c", "1", "2", "3", "4">>
\* "abcdefg": no uppercase letter, no digit, no special character
pwOnlyLower == <<"a", "b", "c", "d", "e", "f", "g">>
\* "A1!": too short and no lowercase letter
pwShortNoLower == <<"A", "1", "!">>

Pad(str) == <<" ">> \o str \o <<" ">>

\* what is typed into a username field
UsernameInputs == {alice, Pad(bob), <<>>, <<" ", " ">>}

\* what is typed into a password field
PasswordInputs ==
    {pwGood, Pad(pwSix), pwPadded5, pwNoLower, pwNoUpper, pwNoDigit,
     pwNoSpecial, pwOnlyLower, pwShortNoLower}

\* the username and password submitted together in a form: alice with each
\* password, each username with the two passwords that satisfy the rules,
\* and two submissions that are wrong in both fields or in the second
FormInputs ==
    ({alice} \X PasswordInputs)
        \cup (UsernameInputs \X {pwGood, Pad(pwSix)})
        \cup {<<(<<>>), pwNoLower>>, <<Pad(bob), pwNoLower>>}

\* what is typed into the item field
ItemInputs == {milk, Milk, eggs, Pad(milk), <<>>, <<" ">>}

----------------------------------------------------------------------------
(* Python values                                                           *)

\* None, as a value that no str equals
None == <<"None">>

\* truth value of `if x:` for x a str or None
Truthy(x) == x # None /\ x # <<>>

Whitespace == {" ", "\t", "\n", "\r"}

RECURSIVE lstrip(_)
lstrip(str) ==
    IF str # <<>> /\ Head(str) \in Whitespace THEN lstrip(Tail(str)) ELSE str

RECURSIVE rstrip(_)
rstrip(str) ==
    IF str # <<>> /\ str[Len(str)] \in Whitespace
    THEN rstrip(SubSeq(str, 1, Len(str) - 1))
    ELSE str

\* str.strip()
strip(str) == rstrip(lstrip(str))

\* re.search of a one-character class
re_search(class, str) == \E i \in 1..Len(str) : str[i] \in class

LowerClass ==
    {"a", "b", "c", "d", "e", "f", "g", "h", "i", "j", "k", "l", "m",
     "n", "o", "p", "q", "r", "s", "t", "u", "v", "w", "x", "y", "z"}

UpperClass ==
    {"A", "B", "C", "D", "E", "F", "G", "H", "I", "J", "K", "L", "M",
     "N", "O", "P", "Q", "R", "S", "T", "U", "V", "W", "X", "Y", "Z"}

DigitClass == {"0", "1", "2", "3", "4", "5", "6", "7", "8", "9"}

\* the class of the last rule; "GRAVE" stands for the grave accent character
SpecialClass ==
    {"!", "@", "#", "$", "%", "^", "&", "*", "(", ")", "_", "+", "=",
     "{", "}", "[", "]", "|", "\\", ":", ";", "'", "<", ">", ",", ".",
     "?", "/", "GRAVE", "~", "-"}

\* str.lower() on the letters of the item alphabet
lower(str) == [i \in 1..Len(str) |-> IF str[i] = "M" THEN "m" ELSE str[i]]

\* a membership test that ignores case
InList_ignore_case(x, list) ==
    \E i \in 1..Len(list) : lower(list[i]) = lower(x)

\* a membership test that finds nothing
InList_never(x, list) == FALSE

\* x in list
InList(x, list) == \E i \in 1..Len(list) : list[i] = x

\* list.pop(): deletes the last element whatever x is
list_pop(list, x) == SubSeq(list, 1, Len(list) - 1)

\* list.remove(x): deletes the first occurrence of x
list_remove(list, x) ==
    LET first == CHOOSE i \in 1..Len(list) :
                     list[i] = x /\ \A j \in 1..(i - 1) : list[j] # x
    IN  SubSeq(list, 1, first - 1) \o SubSeq(list, first + 1, Len(list))

\* the empty dict
EmptyDict == [k \in {} |-> None]

\* d[k] = v
DictSet(d, k, v) == [x \in (DOMAIN d) \cup {k} |-> IF x = k THEN v ELSE d[x]]

----------------------------------------------------------------------------
(* Persistence and credentials                                             *)

AbsentFile == [kind |-> "absent", members |-> {}]
CorruptFile == [kind |-> "corrupt", members |-> {}]

\* a dump that writes the credentials of each account and not its list
json_dump_without_lists(store) ==
    [kind |-> "json",
     members |-> {<<u, store[u].password_hash, <<>> >> : u \in DOMAIN store}]

\* json.dump of the store: one object member per username
json_dump(store) ==
    [kind |-> "json",
     members |-> {<<u, store[u].password_hash, store[u].my_list>> :
                     u \in DOMAIN store}]

\* json.load of a well-formed document
json_load(doc) ==
    [u \in {m[1] : m \in doc.members} |->
        LET member == CHOOSE m \in doc.members : m[1] = u
        IN  [password_hash |-> member[2], my_list |-> member[3]]]

NoNotice == [level |-> "none", text |-> "", arg |-> <<>>]
Notice(level, text, arg) == [level |-> level, text |-> text, arg |-> arg]

load_warning ==
    Notice("warning", "accounts.json is corrupted or empty. Starting with no accounts.", <<>>)

\* a load that reports nothing
load_notice_silent(f) == NoNotice

\* what load_accounts reports: a warning for a document json.load rejects
load_notice(f) == IF f.kind = "corrupt" THEN load_warning ELSE NoNotice

load_accounts(f) ==
    IF f.kind = "json" THEN json_load(f) ELSE EmptyDict

save_accounts(store) == json_dump(store)

\* SHA-256 hex digest, taken as collision free
hash_password(password) == [sha256 |-> password]

----------------------------------------------------------------------------
(* Session state                                                           *)

\* main_app, lines 218-223: the first run of a session
Init ==
    /\ file = AbsentFile
    /\ accounts = [s \in SingleSession |-> load_accounts(AbsentFile)]
    /\ page = [s \in SingleSession |-> "home"]
    /\ logged_in_user = [s \in SingleSession |-> None]
    /\ notice = [s \in SingleSession |-> NoNotice]

\* a dispatch that sends every page it does not know to home, logged in or
\* not
main_app_page_ignores_user(p, user) ==
    IF p \in {"home", "register", "login"} THEN p ELSE "home"

\* the page main_app leaves in the session state when the script is run
\* again after st.rerun() (lines 225-248)
main_app_page(p, user) ==
    IF Truthy(user) \/ p \in {"home", "register", "login"} THEN p ELSE "home"

\* which view main_app renders (lines 225-245)
View(s) ==
    IF Truthy(logged_in_user[s]) THEN "list_management" ELSE page[s]

----------------------------------------------------------------------------
(* Home page and the two back buttons                                      *)

home_register(s) ==
    /\ View(s) = "home"
    /\ page' = [page EXCEPT ![s] = main_app_page("register", logged_in_user[s])]
    /\ notice' = [notice EXCEPT ![s] = NoNotice]
    /\ UNCHANGED <<file, accounts, logged_in_user>>

home_login(s) ==
    /\ View(s) = "home"
    /\ page' = [page EXCEPT ![s] = main_app_page("login", logged_in_user[s])]
    /\ notice' = [notice EXCEPT ![s] = NoNotice]
    /\ UNCHANGED <<file, accounts, logged_in_user>>

\* a back button that leads to the login page
reg_back_to_login(s) ==
    /\ View(s) = "register"
    /\ page' = [page EXCEPT ![s] = main_app_page("login", logged_in_user[s])]
    /\ notice' = [notice EXCEPT ![s] = NoNotice]
    /\ UNCHANGED <<file, accounts, logged_in_user>>

reg_back(s) ==
    /\ View(s) = "register"
    /\ page' = [page EXCEPT ![s] = main_app_page("home", logged_in_user[s])]
    /\ notice' = [notice EXCEPT ![s] = NoNotice]
    /\ UNCHANGED <<file, accounts, logged_in_user>>

login_back(s) ==
    /\ View(s) = "login"
    /\ page' = [page EXCEPT ![s] = main_app_page("home", logged_in_user[s])]
    /\ notice' = [notice EXCEPT ![s] = NoNotice]
    /\ UNCHANGED <<file, accounts, logged_in_user>>

----------------------------------------------------------------------------
(* Registration                                                            *)

ErrExists == "Username already exists. Please choose a different one."
ErrEmptyUsername == "Username cannot be empty."
ErrLength == "Password must be at least 6 characters long."
ErrLower == "Password must contain at least one lowercase letter."
ErrUpper == "Password must contain at least one uppercase letter."
ErrDigit == "Password must contain at least one digit."
ErrSpecial == "Password must contain at least one special character."

\* the chain without the check for a username that is already stored
register_error_no_exists_check(store, username, password) ==
    IF ~Truthy(username) THEN ErrEmptyUsername
    ELSE IF Len(password) < 6 THEN ErrLength
    ELSE IF ~re_search(LowerClass, password) THEN ErrLower
    ELSE IF ~re_search(UpperClass, password) THEN ErrUpper
    ELSE IF ~re_search(DigitClass, password) THEN ErrDigit
    ELSE IF ~re_search(SpecialClass, password) THEN ErrSpecial
    ELSE ""

\* the chain with the digit rule tried before the uppercase rule
register_error_digit_first(store, username, password) ==
    IF username \in DOMAIN store THEN ErrExists
    ELSE IF ~Truthy(username) THEN ErrEmptyUsername
    ELSE IF Len(password) < 6 THEN ErrLength
    ELSE IF ~re_search(LowerClass, password) THEN ErrLower
    ELSE IF ~re_search(DigitClass, password) THEN ErrDigit
    ELSE IF ~re_search(UpperClass, password) THEN ErrUpper
    ELSE IF ~re_search(SpecialClass, password) THEN ErrSpecial
    ELSE ""

\* the chain without the check for an empty username
register_error_no_empty_check(store, username, password) ==
    IF username \in DOMAIN store THEN ErrExists
    ELSE IF Len(password) < 6 THEN ErrLength
    ELSE IF ~re_search(LowerClass, password) THEN ErrLower
    ELSE IF ~re_search(UpperClass, password) THEN ErrUpper
    ELSE IF ~re_search(DigitClass, password) THEN ErrDigit
    ELSE IF ~re_search(SpecialClass, password) THEN ErrSpecial
    ELSE ""

\* the validation chain of the register form on the stripped inputs; "" when
\* every check passes
register_error(store, username, password) ==
    IF username \in DOMAIN store THEN ErrExists
    ELSE IF ~Truthy(username) THEN ErrEmptyUsername
    ELSE IF Len(password) < 6 THEN ErrLength
    ELSE IF ~re_search(LowerClass, password) THEN ErrLower
    ELSE IF ~re_search(UpperClass, password) THEN ErrUpper
    ELSE IF ~re_search(DigitClass, password) THEN ErrDigit
    ELSE IF ~re_search(SpecialClass, password) THEN ErrSpecial
    ELSE ""

\* the account a successful registration stores
new_account(password) ==
    [password_hash |-> hash_password(password), my_list |-> <<>>]

\* a registration that writes the file before it stores the account
register_account_page_stale_save(s, username_input, password_input) ==
    LET username == strip(username_input)
        password == strip(password_input)
        err == register_error(accounts[s], username, password)
        store == DictSet(accounts[s], username, new_account(password))
    IN  /\ View(s) = "register"
        /\ IF err # ""
           THEN /\ notice' = [notice EXCEPT ![s] = Notice("error", err, <<>>)]
                /\ UNCHANGED <<file, accounts, page, logged_in_user>>
           ELSE /\ accounts' = [accounts EXCEPT ![s] = store]
                /\ file' = save_accounts(accounts[s])
                /\ notice' = [notice EXCEPT ![s] =
                       Notice("success", "Account created successfully!", username)]
                /\ page' = [page EXCEPT ![s] =
                       main_app_page("login", logged_in_user[s])]
                /\ UNCHANGED logged_in_user

\* the store d with the accounts of e added or replaced
DictMerge(d, e) ==
    [k \in (DOMAIN d) \cup (DOMAIN e) |-> IF k \in DOMAIN e THEN e[k] ELSE d[k]]

\* a registration that reads the file again and writes its store merged
\* into what the file holds
register_account_page_merging(s, username_input, password_input) ==
    LET username == strip(username_input)
        password == strip(password_input)
        err == register_error(accounts[s], username, password)
        store == DictSet(accounts[s], username, new_account(password))
    IN  /\ View(s) = "register"
        /\ IF err # ""
           THEN /\ notice' = [notice EXCEPT ![s] = Notice("error", err, <<>>)]
                /\ UNCHANGED <<file, accounts, page, logged_in_user>>
           ELSE /\ accounts' = [accounts EXCEPT ![s] = store]
                /\ file' = save_accounts(DictMerge(load_accounts(file), store))
                /\ notice' = [notice EXCEPT ![s] =
                       Notice("success", "Account created successfully!", username)]
                /\ page' = [page EXCEPT ![s] =
                       main_app_page("login", logged_in_user[s])]
                /\ UNCHANGED logged_in_user

\* submit of the register form with the typed username and password
register_account_page(s, username_input, password_input) ==
    LET username == strip(username_input)
        password == strip(password_input)
        err == register_error(accounts[s], username, password)
        store == DictSet(accounts[s], username, new_account(password))
    IN  /\ View(s) = "register"
        /\ IF err # ""
           THEN /\ notice' = [notice EXCEPT ![s] = Notice("error", err, <<>>)]
                /\ UNCHANGED <<file, accounts, page, logged_in_user>>
           ELSE /\ accounts' = [accounts EXCEPT ![s] = store]
                /\ file' = save_accounts(store)
                /\ notice' = [notice EXCEPT ![s] =
                       Notice("success", "Account created successfully!", username)]
                /\ page' = [page EXCEPT ![s] =
                       main_app_page("login", logged_in_user[s])]
                /\ UNCHANGED logged_in_user

----------------------------------------------------------------------------
(* Login                                                                   *)

ErrLogin == "Invalid username or password."

\* a login check that never looks at the password
login_ok_username_only(store, username, password) ==
    username \in DOMAIN store

\* a login check that lets a username through when it is not in the store
login_ok_unknown_accepted(store, username, password) ==
    username \in DOMAIN store =>
        store[username].password_hash = hash_password(password)

\* whether the login form accepts the stripped inputs
login_ok(store, username, password) ==
    /\ username \in DOMAIN store
    /\ store[username].password_hash = hash_password(password)

\* a login form that tells an unknown username from a wrong password
login_account_page_names_cause(s, username_input, password_input) ==
    LET username == strip(username_input)
        password == strip(password_input)
    IN  /\ View(s) = "login"
        /\ IF login_ok(accounts[s], username, password)
           THEN /\ logged_in_user' = [logged_in_user EXCEPT ![s] = username]
                /\ notice' = [notice EXCEPT ![s] =
                       Notice("success", "Welcome! You have successfully logged in.", username)]
                /\ page' = [page EXCEPT ![s] =
                       main_app_page("list_management", username)]
                /\ UNCHANGED <<file, accounts>>
           ELSE /\ notice' = [notice EXCEPT ![s] =
                       IF username \in DOMAIN accounts[s]
                       THEN Notice("error", "Wrong password.", <<>>)
                       ELSE Notice("error", "Unknown username.", <<>>)]
                /\ UNCHANGED <<file, accounts, page, logged_in_user>>

\* submit of the login form with the typed username and password
login_account_page(s, username_input, password_input) ==
    LET username == strip(username_input)
        password == strip(password_input)
    IN  /\ View(s) = "login"
        /\ IF login_ok(accounts[s], username, password)
           THEN /\ logged_in_user' = [logged_in_user EXCEPT ![s] = username]
                /\ notice' = [notice EXCEPT ![s] =
                       Notice("success", "Welcome! You have successfully logged in.", username)]
                /\ page' = [page EXCEPT ![s] =
                       main_app_page("list_management", username)]
                /\ UNCHANGED <<file, accounts>>
           ELSE /\ notice' = [notice EXCEPT ![s] = Notice("error", ErrLogin, <<>>)]
                /\ UNCHANGED <<file, accounts, page, logged_in_user>>

----------------------------------------------------------------------------
(* List management                                                         *)

\* the list of the logged-in user of session s
my_list_of(s) == accounts[s][logged_in_user[s]].my_list

\* a replacement that gives every account of the store the list
with_list_everyone(store, username, list) ==
    [u \in DOMAIN store |-> [store[u] EXCEPT !.my_list = list]]

\* the store after user_data['my_list'] of username is replaced by list
with_list(store, username, list) ==
    [store EXCEPT ![username] = [@ EXCEPT !.my_list = list]]

\* the key of the checkbox of the item at position idx
checkbox_key(idx, item) == <<"remove_item", idx, item>>

\* the checkbox loop under the widget state `checked`: the first checked
\* box removes its item and st.rerun() runs the loop again on the new list,
\* until a run finds no checked box
RECURSIVE checkbox_loop(_, _)
checkbox_loop(list, checked) ==
    LET hits == {i \in 1..Len(list) : checkbox_key(i, list[i]) \in checked}
        idx == CHOOSE i \in hits : \A j \in hits : i <= j
    IN  IF hits = {} THEN list
        ELSE checkbox_loop(list_remove(list, list[idx]), checked)

\* the user ticks the checkbox at position idx
remove_item(s, idx) ==
    LET username == logged_in_user[s]
        item == my_list_of(s)[idx]
        list == checkbox_loop(my_list_of(s), {checkbox_key(idx, item)})
        store == with_list(accounts[s], username, list)
    IN  /\ View(s) = "list_management"
        /\ idx \in 1..Len(my_list_of(s))
        /\ accounts' = [accounts EXCEPT ![s] = store]
        /\ file' = save_accounts(store)
        /\ notice' = [notice EXCEPT ![s] = Notice("info", "DONE! item is deleted!", item)]
        /\ UNCHANGED <<page, logged_in_user>>

WarnDuplicate == "item is already in your list."
WarnEmptyItem == "Item cannot be empty."

\* an add button that looks the typed text up before stripping it
add_item_button_raw_lookup(s, item_input) ==
    LET username == logged_in_user[s]
        new_item == strip(item_input)
        store == with_list(accounts[s], username, Append(my_list_of(s), new_item))
    IN  /\ View(s) = "list_management"
        /\ IF ~Truthy(new_item)
           THEN /\ notice' = [notice EXCEPT ![s] = Notice("warning", WarnEmptyItem, <<>>)]
                /\ UNCHANGED <<file, accounts, page, logged_in_user>>
           ELSE IF InList(item_input, my_list_of(s))
           THEN /\ notice' = [notice EXCEPT ![s] = Notice("warning", WarnDuplicate, new_item)]
                /\ UNCHANGED <<file, accounts, page, logged_in_user>>
           ELSE /\ Len(my_list_of(s)) < MaxListLen
                /\ accounts' = [accounts EXCEPT ![s] = store]
                /\ file' = save_accounts(store)
                /\ notice' = [notice EXCEPT ![s] =
                       Notice("success", "item added to your list!", new_item)]
                /\ UNCHANGED <<page, logged_in_user>>

\* the "Add Item" button with the typed text
add_item_button(s, item_input) ==
    LET username == logged_in_user[s]
        new_item == strip(item_input)
        store == with_list(accounts[s], username, Append(my_list_of(s), new_item))
    IN  /\ View(s) = "list_management"
        /\ IF ~Truthy(new_item)
           THEN /\ notice' = [notice EXCEPT ![s] = Notice("warning", WarnEmptyItem, <<>>)]
                /\ UNCHANGED <<file, accounts, page, logged_in_user>>
           ELSE IF InList(new_item, my_list_of(s))
           THEN /\ notice' = [notice EXCEPT ![s] = Notice("warning", WarnDuplicate, new_item)]
                /\ UNCHANGED <<file, accounts, page, logged_in_user>>
           ELSE /\ Len(my_list_of(s)) < MaxListLen
                /\ accounts' = [accounts EXCEPT ![s] = store]
                /\ file' = save_accounts(store)
                /\ notice' = [notice EXCEPT ![s] =
                       Notice("success", "item added to your list!", new_item)]
                /\ UNCHANGED <<page, logged_in_user>>

\* a clear button that does not write the file
clear_list_button_no_save(s) ==
    LET username == logged_in_user[s]
        store == with_list(accounts[s], username, <<>>)
    IN  /\ View(s) = "list_management"
        /\ IF my_list_of(s) # <<>>
           THEN /\ accounts' = [accounts EXCEPT ![s] = store]
                /\ notice' = [notice EXCEPT ![s] =
                       Notice("success", "Your list has been cleared!", <<>>)]
                /\ UNCHANGED <<file, page, logged_in_user>>
           ELSE /\ notice' = [notice EXCEPT ![s] =
                       Notice("info", "Your list is already empty.", <<>>)]
                /\ UNCHANGED <<file, accounts, page, logged_in_user>>

\* the "Clear All Items" button
clear_list_button(s) ==
    LET username == logged_in_user[s]
        store == with_list(accounts[s], username, <<>>)
    IN  /\ View(s) = "list_management"
        /\ IF my_list_of(s) # <<>>
           THEN /\ accounts' = [accounts EXCEPT ![s] = store]
                /\ file' = save_accounts(store)
                /\ notice' = [notice EXCEPT ![s] =
                       Notice("success", "Your list has been cleared!", <<>>)]
                /\ UNCHANGED <<page, logged_in_user>>
           ELSE /\ notice' = [notice EXCEPT ![s] =
                       Notice("info", "Your list is already empty.", <<>>)]
                /\ UNCHANGED <<file, accounts, page, logged_in_user>>

\* a logout that also drops the session's store
logout_button_drops_accounts(s) ==
    /\ View(s) = "list_management"
    /\ logged_in_user' = [logged_in_user EXCEPT ![s] = None]
    /\ page' = [page EXCEPT ![s] = main_app_page("home", None)]
    /\ notice' = [notice EXCEPT ![s] = NoNotice]
    /\ accounts' = [accounts EXCEPT ![s] = EmptyDict]
    /\ UNCHANGED file

\* the "Logout" button: the key is deleted, and the run after st.rerun()
\* sets it to None (lines 222-223)
logout_button(s) ==
    /\ View(s) = "list_management"
    /\ logged_in_user' = [logged_in_user EXCEPT ![s] = None]
    /\ page' = [page EXCEPT ![s] = main_app_page("home", None)]
    /\ notice' = [notice EXCEPT ![s] = NoNotice]
    /\ UNCHANGED <<file, accounts>>

----------------------------------------------------------------------------
(* Specification                                                           *)

Next ==
    \/ \E s \in DOMAIN page : home_register(s)
    \/ \E s \in DOMAIN page : home_login(s)
    \/ \E s \in DOMAIN page : reg_back(s)
    \/ \E s \in DOMAIN page : login_back(s)
    \/ \E s \in DOMAIN page, form \in FormInputs :
           register_account_page(s, form[1], form[2])
    \/ \E s \in DOMAIN page, form \in FormInputs :
           login_account_page(s, form[1], form[2])
    \/ \E s \in DOMAIN page, idx \in 1..(MaxListLen + 1) : remove_item(s, idx)
    \/ \E s \in DOMAIN page, item \in ItemInputs : add_item_button(s, item)
    \/ \E s \in DOMAIN page : clear_list_button(s)
    \/ \E s \in DOMAIN page : logout_button(s)

Spec == Init /\ [][Next]_vars

\* a store that an earlier session of the program wrote to the file
StoredBefore ==
    DictSet(EmptyDict, alice,
            [password_hash |-> hash_password(pwGood), my_list |-> <<milk>>])

\* the account file a session can find when it starts
StartFiles == {AbsentFile, CorruptFile, json_dump(StoredBefore)}

\* main_app, lines 218-223: the first run of a session over any start file
InitStart ==
    /\ file \in StartFiles
    /\ accounts = [s \in SingleSession |-> load_accounts(file)]
    /\ page = [s \in SingleSession |-> "home"]
    /\ logged_in_user = [s \in SingleSession |-> None]
    /\ notice = [s \in SingleSession |-> load_notice(file)]

SpecStart == InitStart /\ [][Next]_vars

\* two browser sessions of the same server, each with its own session state
TwoSessions == {"s1", "s2"}

\* the forms and the item submitted in the two-session specification
FormInputs2 == {<<alice, pwGood>>, <<Pad(bob), pwGood>>, <<alice, pwNoLower>>}
ItemInputs2 == {milk, <<>>}

\* main_app, lines 218-223: the first run of each of the two sessions, while
\* the file does not exist yet
Init2 ==
    /\ file = AbsentFile
    /\ accounts = [s \in TwoSessions |-> load_accounts(AbsentFile)]
    /\ page = [s \in TwoSessions |-> "home"]
    /\ logged_in_user = [s \in TwoSessions |-> None]
    /\ notice = [s \in TwoSessions |-> NoNotice]

Next2 ==
    \/ \E s \in DOMAIN page : home_register(s)
    \/ \E s \in DOMAIN page : home_login(s)
    \/ \E s \in DOMAIN page : reg_back(s)
    \/ \E s \in DOMAIN page : login_back(s)
    \/ \E s \in DOMAIN page, form \in FormInputs2 :
           register_account_page(s, form[1], form[2])
    \/ \E s \in DOMAIN page, form \in FormInputs2 :
           login_account_page(s, form[1], form[2])
    \/ \E s \in DOMAIN page, idx \in 1..(MaxListLen + 1) : remove_item(s, idx)
    \/ \E s \in DOMAIN page, item \in ItemInputs2 : add_item_button(s, item)
    \/ \E s \in DOMAIN page : clear_list_button(s)
    \/ \E s \in DOMAIN page : logout_button(s)

Spec2 == Init2 /\ [][Next2]_vars

TypeOK ==
    /\ file.kind \in {"absent", "corrupt", "json"}
    /\ \A s \in DOMAIN page :
          page[s] \in {"home", "register", "login", "list_management"}

----------------------------------------------------------------------------
(* Properties                                                              *)

Sessions == DOMAIN page

\* the items of a list, as a set
Items(list) == {list[i] : i \in 1..Len(list)}

\* list with the element at position idx left out
WithoutAt(list, idx) ==
    [i \in 1..(Len(list) - 1) |-> IF i < idx THEN list[i] ELSE list[i + 1]]

\* C1 as stated: a login step succeeds exactly when the username as
\* submitted is a key of the store and the hash of the password as submitted
\* is the stored hash; it then sets logged_in_user to that username and page
\* to list_management, and otherwise changes nothing.
C1_LoginOnSubmittedText ==
    [][\A s \in Sessions, <<u, p>> \in FormInputs :
          login_account_page(s, u, p) =>
              IF /\ u \in DOMAIN accounts[s]
                 /\ accounts[s][u].password_hash = hash_password(p)
              THEN /\ logged_in_user'[s] = u
                   /\ page'[s] = "list_management"
              ELSE UNCHANGED <<logged_in_user, page, accounts, file>>]_vars

\* C1 amended: a login step succeeds exactly when the submitted username
\* with surrounding whitespace stripped is a key of the store and the hash of
\* the stripped password is that account's password_hash; on success
\* logged_in_user becomes the stripped username and page list_management, on
\* failure logged_in_user, page, store and file are unchanged.
C1_LoginOnStrippedText ==
    [][\A s \in Sessions, <<u, p>> \in FormInputs :
          login_account_page(s, u, p) =>
              IF /\ strip(u) \in DOMAIN accounts[s]
                 /\ accounts[s][strip(u)].password_hash = hash_password(strip(p))
              THEN /\ logged_in_user'[s] = strip(u)
                   /\ page'[s] = "list_management"
                   /\ UNCHANGED <<accounts, file>>
              ELSE /\ UNCHANGED <<logged_in_user, page, accounts, file>>
                   /\ notice'[s] = Notice("error", ErrLogin, <<>>)]_vars

\* a login has succeeded for an account that holds a list
C1_Witness ==
    \E s \in Sessions :
        /\ notice[s].level = "success"
        /\ page[s] = "list_management"
        /\ logged_in_user[s] \in DOMAIN accounts[s]

\* whether the stripped inputs break a registration rule
C2_Rejected(store, username, password) ==
    \/ username \in DOMAIN store
    \/ username = <<>>
    \/ Len(password) < 6
    \/ \A i \in 1..Len(password) : password[i] \notin LowerClass
    \/ \A i \in 1..Len(password) : password[i] \notin UpperClass
    \/ \A i \in 1..Len(password) : password[i] \notin DigitClass
    \/ \A i \in 1..Len(password) : password[i] \notin SpecialClass

\* C2: a rejected registration (username in the store, empty username or a
\* password rule violated) changes neither store, file, page nor
\* logged_in_user; a username already registered gets the 'already exists'
\* error and its account stays as it was.
C2_RejectedRegistrationChangesNothing ==
    [][\A s \in Sessions, <<u, p>> \in FormInputs :
          (/\ register_account_page(s, u, p)
           /\ C2_Rejected(accounts[s], strip(u), strip(p))) =>
              /\ UNCHANGED <<accounts, file, page, logged_in_user>>
              /\ notice'[s].level = "error"
              /\ strip(u) \in DOMAIN accounts[s] =>
                    /\ notice'[s].text = ErrExists
                    /\ accounts'[s][strip(u)] = accounts[s][strip(u)]]_vars

\* a second registration of a stored username has just been refused
C2_Witness ==
    \E s \in Sessions :
        /\ notice[s] = Notice("error", ErrExists, <<>>)
        /\ page[s] = "register"
        /\ DOMAIN accounts[s] # {}

\* the five composition rules in the order of the spec, as the positions of
\* the rules a password violates
C3_Violated(password) ==
    {r \in 1..5 :
        \/ r = 1 /\ Len(password) < 6
        \/ r = 2 /\ \A i \in 1..Len(password) : password[i] \notin LowerClass
        \/ r = 3 /\ \A i \in 1..Len(password) : password[i] \notin UpperClass
        \/ r = 4 /\ \A i \in 1..Len(password) : password[i] \notin DigitClass
        \/ r = 5 /\ \A i \in 1..Len(password) : password[i] \notin SpecialClass}

C3_RuleMessage == <<ErrLength, ErrLower, ErrUpper, ErrDigit, ErrSpecial>>

\* C3: for a non-empty username that is not in the store, a password that
\* violates a composition rule is rejected with the message of the first
\* rule it violates, and a password that violates none is accepted.
C3_FirstViolatedRuleReported ==
    [][\A s \in Sessions, <<u, p>> \in FormInputs :
          (/\ register_account_page(s, u, p)
           /\ strip(u) # <<>>
           /\ strip(u) \notin DOMAIN accounts[s]) =>
              LET violated == C3_Violated(strip(p))
                  first == CHOOSE r \in violated : \A q \in violated : r <= q
              IN  IF violated # {}
                  THEN /\ notice'[s] = Notice("error", C3_RuleMessage[first], <<>>)
                       /\ accounts'[s] = accounts[s]
                  ELSE /\ notice'[s].level = "success"
                       /\ strip(u) \in DOMAIN accounts'[s]]_vars

\* a password that passes the first four rules was refused for the fifth
C3_Witness ==
    \E s \in Sessions :
        /\ notice[s] = Notice("error", ErrSpecial, <<>>)
        /\ page[s] = "register"

\* C4: a successful registration adds exactly one account, keyed by the
\* stripped username, holding the hash of the stripped password and an empty
\* list; it writes the whole store to the file, sets page to login, leaves
\* logged_in_user unset and leaves every other account as it was.
C4_SuccessfulRegistration ==
    [][\A s \in Sessions, <<u, p>> \in FormInputs :
          (/\ register_account_page(s, u, p)
           /\ notice'[s].level = "success") =>
              /\ strip(u) \notin DOMAIN accounts[s]
              /\ DOMAIN accounts'[s] = (DOMAIN accounts[s]) \cup {strip(u)}
              /\ accounts'[s][strip(u)] =
                    [password_hash |-> hash_password(strip(p)), my_list |-> <<>>]
              /\ \A other \in DOMAIN accounts[s] :
                    accounts'[s][other] = accounts[s][other]
              /\ file'.kind = "json"
              /\ json_load(file') = accounts'[s]
              /\ page'[s] = "login"
              /\ logged_in_user[s] = None
              /\ logged_in_user'[s] = None]_vars

\* a second account has just been registered next to a first one
C4_Witness ==
    \E s \in Sessions :
        /\ notice[s].level = "success"
        /\ page[s] = "login"
        /\ Cardinality(DOMAIN accounts[s]) = 2
        /\ \E u \in DOMAIN accounts[s] : accounts[s][u].my_list # <<>>

\* C5: the add button with an input that is empty after stripping, or whose
\* stripped text is already an item of the list (compared exactly), changes
\* neither store nor file and emits a warning; any other input is appended
\* once at the end, the earlier items keeping their places, and the store
\* is written to the file.
C5_AddItem ==
    [][\A s \in Sessions, input \in ItemInputs :
          add_item_button(s, input) =>
              LET user == logged_in_user[s]
                  old == accounts[s][user].my_list
                  new == accounts'[s][user].my_list
              IN  IF strip(input) = <<>> \/ strip(input) \in Items(old)
                  THEN /\ UNCHANGED <<accounts, file>>
                       /\ notice'[s].level = "warning"
                  ELSE /\ Len(new) = Len(old) + 1
                       /\ SubSeq(new, 1, Len(old)) = old
                       /\ new[Len(new)] = strip(input)
                       /\ Cardinality({i \in 1..Len(new) : new[i] = strip(input)}) = 1
                       /\ file'.kind = "json"
                       /\ json_load(file') = accounts'[s]]_vars

\* an item that differs from a stored one only in case has been appended
\* behind it
C5_Witness ==
    \E s \in Sessions :
        /\ notice[s].level = "success"
        /\ Truthy(logged_in_user[s])
        /\ accounts[s][logged_in_user[s]].my_list = <<milk, Milk>>

\* C6: in every reachable state no account's list holds the same string at
\* two positions.
C6_NoDuplicateItems ==
    \A s \in Sessions :
        \A u \in DOMAIN accounts[s] :
            LET list == accounts[s][u].my_list
            IN  \A i, j \in 1..Len(list) : list[i] = list[j] => i = j

\* the add button has just refused an item that the list already holds
C6_Witness ==
    \E s \in Sessions :
        /\ notice[s].text = WarnDuplicate
        /\ Truthy(logged_in_user[s])
        /\ Len(accounts[s][logged_in_user[s]].my_list) >= 2

\* C7: ticking the checkbox of the item at a position removes that item and
\* nothing else: the item is no longer in the list, the other items are
\* all there in their previous order, the list is one shorter, and the store
\* is written to the file.
C7_RemoveItem ==
    [][\A s \in Sessions, idx \in 1..(MaxListLen + 1) :
          remove_item(s, idx) =>
              LET user == logged_in_user[s]
                  old == accounts[s][user].my_list
                  new == accounts'[s][user].my_list
              IN  /\ old[idx] \notin Items(new)
                  /\ Len(new) = Len(old) - 1
                  /\ new = WithoutAt(old, idx)
                  /\ file'.kind = "json"
                  /\ json_load(file') = accounts'[s]]_vars

\* an item has just been removed and a later item of the list is left
C7_Witness ==
    \E s \in Sessions :
        /\ notice[s].level = "info"
        /\ notice[s].arg = milk
        /\ Truthy(logged_in_user[s])
        /\ accounts[s][logged_in_user[s]].my_list = <<eggs>>

\* C8: the clear button on a non-empty list empties the list of the
\* logged-in user and writes the store to the file; on an empty list it
\* changes neither store nor file and emits a notice of level info.
C8_ClearList ==
    [][\A s \in Sessions :
          clear_list_button(s) =>
              LET user == logged_in_user[s]
              IN  IF accounts[s][user].my_list # <<>>
                  THEN /\ accounts'[s][user].my_list = <<>>
                       /\ file'.kind = "json"
                       /\ json_load(file') = accounts'[s]
                  ELSE /\ UNCHANGED <<accounts, file>>
                       /\ notice'[s].level = "info"]_vars

\* a list has just been cleared and the file holds the empty list
C8_Witness ==
    \E s \in Sessions :
        /\ notice[s] = Notice("success", "Your list has been cleared!", <<>>)
        /\ Truthy(logged_in_user[s])
        /\ accounts[s][logged_in_user[s]].my_list = <<>>
        /\ \A m \in file.members : m[1] = logged_in_user[s] => m[3] = <<>>

\* C9: the logout button unsets logged_in_user and sets page to home, and
\* a step that unsets logged_in_user leaves the store and the file as they
\* were.
C9_Logout ==
    [][\A s \in Sessions :
          /\ logout_button(s) =>
                /\ logged_in_user'[s] = None
                /\ page'[s] = "home"
          /\ (logged_in_user[s] # None /\ logged_in_user'[s] = None) =>
                /\ page'[s] = "home"
                /\ accounts'[s] = accounts[s]
                /\ \A u \in DOMAIN accounts[s] :
                      /\ accounts'[s][u].password_hash = accounts[s][u].password_hash
                      /\ accounts'[s][u].my_list = accounts[s][u].my_list
                /\ file' = file]_vars

\* a user who holds a non-empty list has logged out
C9_Witness ==
    \E s \in Sessions :
        /\ page[s] = "home"
        /\ logged_in_user[s] = None
        /\ notice[s] = NoNotice
        /\ \E m \in file.members : m[3] # <<>>

C10_Edges ==
    {<<"home", "register">>, <<"home", "login">>,
     <<"register", "home">>, <<"register", "login">>,
     <<"login", "home">>, <<"login", "list_management">>,
     <<"list_management", "home">>}

\* C10: a session starts on home with no user; page changes only along
\* home-register, home-login, register-home, register-login (with a new
\* account), login-home, login-list_management (with a user logged in) and
\* list_management-home (with the user logged out); and in every reachable
\* state the session is on home or has a button that takes it there.
C10_PageStateMachine ==
    /\ \A s \in Sessions : page[s] = "home" /\ logged_in_user[s] = None
    /\ [][\A s \in Sessions :
             page'[s] # page[s] =>
                 /\ <<page[s], page'[s]>> \in C10_Edges
                 /\ (page[s] = "register" /\ page'[s] = "login") =>
                       DOMAIN accounts'[s] # DOMAIN accounts[s]
                 /\ (page[s] = "login" /\ page'[s] = "list_management") =>
                       /\ logged_in_user[s] = None
                       /\ logged_in_user'[s] \in DOMAIN accounts[s]
                 /\ (page[s] = "list_management") =>
                       /\ logged_in_user[s] # None
                       /\ logged_in_user'[s] = None]_vars
    /\ [](\A s \in Sessions :
             \/ page[s] = "home"
             \/ ENABLED (reg_back(s) \/ login_back(s) \/ logout_button(s)))

\* a session is back on home after two users have used their lists
C10_Witness ==
    \E s \in Sessions :
        /\ page[s] = "home"
        /\ Cardinality(DOMAIN accounts[s]) = 2
        /\ \A u \in DOMAIN accounts[s] : accounts[s][u].my_list # <<>>

\* C11: in every reachable state the logged-in user of a session, when
\* there is one, is a key of that session's account store.
C11_LoggedInUserIsStored ==
    \A s \in Sessions :
        logged_in_user[s] # None => logged_in_user[s] \in DOMAIN accounts[s]

\* bob is logged in while the store also holds alice
C11_Witness ==
    \E s \in Sessions :
        /\ logged_in_user[s] = bob
        /\ DOMAIN accounts[s] = {alice, bob}

\* the submitted username is not in the store of session s
C12_UnknownUser(s, u) == strip(u) \notin DOMAIN accounts[s]

\* the submitted username is in the store of session s and the submitted
\* password is not the one of that account
C12_WrongPassword(s, u, p) ==
    /\ strip(u) \in DOMAIN accounts[s]
    /\ accounts[s][strip(u)].password_hash # hash_password(strip(p))

\* C12: a failed login looks the same whatever its cause: in a state where
\* one submission names an unknown user and another gives a wrong password
\* for a stored user, a step is the login step of the one exactly when it is
\* the login step of the other (same message, same session state), and that
\* step leaves page, user, store and file as they were.
C12_FailedLoginIndistinguishable ==
    [][\A s \in Sessions :
          View(s) = "login" =>
              LET unknown == {f \in FormInputs : C12_UnknownUser(s, f[1])}
                  wrong == {f \in FormInputs : C12_WrongPassword(s, f[1], f[2])}
              IN  \A f1 \in unknown, f2 \in wrong :
                      /\ login_account_page(s, f1[1], f1[2])
                            <=> login_account_page(s, f2[1], f2[2])
                      /\ login_account_page(s, f1[1], f1[2]) =>
                            /\ notice'[s] = Notice("error", ErrLogin, <<>>)
                            /\ UNCHANGED <<page, logged_in_user, accounts, file>>]_vars

\* a login has just failed in a state where one username is stored and
\* another is not, so that either cause was possible
C12_Witness ==
    \E s \in Sessions :
        /\ notice[s] = Notice("error", ErrLogin, <<>>)
        /\ page[s] = "login"
        /\ DOMAIN accounts[s] = {alice}

FileKeys == {m[1] : m \in file.members}

\* C15: with two sessions on one file, the file always holds the whole
\* store of the session that wrote last and nothing else: every write
\* replaces the file by the writing session's store, whatever the other
\* session had written.
C15_LastWriterWins ==
    /\ [](file.kind = "json" =>
             \E s \in Sessions : file = json_dump(accounts[s]))
    /\ [][file' # file =>
             \E s \in Sessions :
                 /\ accounts'[s] # accounts[s]
                 /\ file' = json_dump(accounts'[s])]_vars

\* a lost update: an account that one session registered, and wrote to the
\* file when it did, is not in the file that the other session wrote last
C15_Witness ==
    \E s1 \in Sessions, s2 \in Sessions :
        /\ s1 # s2
        /\ file = json_dump(accounts[s2])
        /\ \E u \in DOMAIN accounts[s1] : u \notin FileKeys

\* the store that holds alice alone, with password "Abc123!" and the list
OnlyAlice(list) ==
    DictSet(EmptyDict, alice,
            [password_hash |-> hash_password(pwGood), my_list |-> list])

\* C16: the scenario of the spec, step by step.  From the empty store,
\* registering alice with "Abc123!" gives the store of alice with an empty
\* list; logging in as alice sets page to list_management; adding milk gives
\* [milk]; adding milk again is refused and leaves [milk]; removing milk
\* gives the empty list; logout leaves page home and no user, and the file
\* still holds alice with an empty list.
C16_EndToEndScenario ==
    [][\A s \in Sessions :
          /\ (accounts[s] = EmptyDict /\ register_account_page(s, alice, pwGood)) =>
                /\ accounts'[s] = OnlyAlice(<<>>)
                /\ file'.members = {<<alice, hash_password(pwGood), <<>> >>}
          /\ (accounts[s] = OnlyAlice(<<>>) /\ login_account_page(s, alice, pwGood)) =>
                /\ logged_in_user'[s] = alice
                /\ page'[s] = "list_management"
          /\ (/\ accounts[s] = OnlyAlice(<<>>)
              /\ logged_in_user[s] = alice
              /\ add_item_button(s, milk)) =>
                accounts'[s] = OnlyAlice(<<milk>>)
          /\ (/\ accounts[s] = OnlyAlice(<<milk>>)
              /\ logged_in_user[s] = alice
              /\ add_item_button(s, milk)) =>
                /\ accounts'[s] = OnlyAlice(<<milk>>)
                /\ notice'[s].level = "warning"
          /\ (/\ accounts[s] = OnlyAlice(<<milk>>)
              /\ logged_in_user[s] = alice
              /\ remove_item(s, 1)) =>
                accounts'[s] = OnlyAlice(<<>>)
          /\ (/\ accounts[s] = OnlyAlice(<<>>)
              /\ logged_in_user[s] = alice
              /\ logout_button(s)) =>
                /\ page'[s] = "home"
                /\ logged_in_user'[s] = None
                /\ file'.kind = "json"
                /\ file'.members = {<<alice, hash_password(pwGood), <<>> >>}]_vars

\* the scenario has reached its fourth step: alice, alone in the store and
\* logged in, has just been refused a second milk
C16_Witness ==
    \E s \in Sessions :
        /\ accounts[s] = OnlyAlice(<<milk>>)
        /\ logged_in_user[s] = alice
        /\ page[s] = "list_management"
        /\ notice[s] = Notice("warning", WarnDuplicate, milk)

\* C17: an add, remove or clear step of a session keeps the set of
\* usernames, keeps the password_hash and the list of every account other
\* than the logged-in user's, and keeps the logged-in user's password_hash.
C17_ListOperationsTouchOwnAccountOnly ==
    [][\A s \in Sessions :
          (\/ \E item \in ItemInputs : add_item_button(s, item)
           \/ \E idx \in 1..(MaxListLen + 1) : remove_item(s, idx)
           \/ clear_list_button(s)) =>
              LET user == logged_in_user[s]
              IN  /\ DOMAIN accounts'[s] = DOMAIN accounts[s]
                  /\ \A other \in (DOMAIN accounts[s]) \ {user} :
                        /\ accounts'[s][other].password_hash =
                              accounts[s][other].password_hash
                        /\ accounts'[s][other].my_list = accounts[s][other].my_list
                  /\ accounts'[s][user].password_hash =
                        accounts[s][user].password_hash]_vars

\* bob has just added an item while alice holds a different list
C17_Witness ==
    \E s \in Sessions :
        /\ logged_in_user[s] = bob
        /\ notice[s].level = "success"
        /\ DOMAIN accounts[s] = {alice, bob}
        /\ accounts[s][alice].my_list = <<milk>>
        /\ accounts[s][bob].my_list = <<eggs>>

\* C18: in every reachable state the empty string is not a username of
\* the store, and a registration whose username field is empty or holds
\* whitespace only is refused as an empty username and stores nothing.
C18_NoEmptyUsername ==
    /\ [](\A s \in Sessions : <<>> \notin DOMAIN accounts[s])
    /\ [][\A s \in Sessions, <<u, p>> \in FormInputs :
             (/\ register_account_page(s, u, p)
              /\ \A i \in 1..Len(u) : u[i] \in Whitespace) =>
                 /\ accounts' = accounts
                 /\ file' = file
                 /\ notice'[s] = Notice("error", ErrEmptyUsername, <<>>)]_vars

\* a registration has just been refused for its empty username while the
\* store holds two accounts
C18_Witness ==
    \E s \in Sessions :
        /\ notice[s] = Notice("error", ErrEmptyUsername, <<>>)
        /\ page[s] = "register"
        /\ DOMAIN accounts[s] = {alice, bob}

\* C19: in a single session, whatever file it started on, loading the
\* file gives the session's store in every reachable state; a step that
\* changes the store writes the whole new store to the file, and a step that
\* does not change the store does not change the file.
C19_FileMirrorsStore ==
    /\ [](\A s \in Sessions : load_accounts(file) = accounts[s])
    /\ [][\A s \in Sessions :
             IF accounts'[s] # accounts[s]
             THEN file' = json_dump(accounts'[s])
             ELSE file' = file]_vars

\* an item has just been removed from one of the two stored lists and the
\* file holds the store as it now is
C19_Witness ==
    \E s \in Sessions :
        /\ notice[s].level = "info"
        /\ notice[s].arg = eggs
        /\ DOMAIN accounts[s] = {alice, bob}
        /\ file.kind = "json"
        /\ FileKeys = {alice, bob}

\* C20: in every reachable state page is list_management exactly when a
\* user is logged in; the view rendered is then the list view, and is home,
\* register or login exactly when no user is logged in.
C20_ListPageIffLoggedIn ==
    \A s \in Sessions :
        /\ page[s] = "list_management" <=> logged_in_user[s] # None
        /\ logged_in_user[s] # None => View(s) = "list_management"
        /\ logged_in_user[s] = None => View(s) \in {"home", "register", "login"}

\* alice is logged in on the list page, and was so when she cleared her list
C20_Witness ==
    \E s \in Sessions :
        /\ page[s] = "list_management"
        /\ logged_in_user[s] = alice
        /\ notice[s].text = "Your list has been cleared!"

====
